---- MODULE Spec2Model ----
(***************************************************************************)
(* Model of the Valorant minimap analyst: the result normalizer of the     *)
(* inference bindings (services/openaiService.ts, services/geminiService.ts*)
(* and its later revisions) and the App's upload / crop / analyze flow.    *)
(*                                                                         *)
(* JavaScript numbers are modelled as exact rationals [n, d] in lowest     *)
(* terms with d > 0, plus the three non-finite values: NaN = [0,0],        *)
(* +Infinity = [1,0], -Infinity = [-1,0].  An optional value (a field that *)
(* may be undefined) is a sequence: <<>> when absent, <<v>> when present.  *)
(***************************************************************************)
EXTENDS Integers, Sequences, FiniteSets, TLC

VARIABLES
    apiKey,         \* whether process.env.OPENAI_API_KEY is set
    manualBounds,   \* argument of the analyze operation: optional MinimapBounds
    reply,          \* what the inference collaborator answers to the call
    provider,       \* which binding ran: "none", "openai" or "gemini"
    outcome,        \* settlement of the returned promise
    state,          \* App: AppState
    imageSrc,       \* App: optional data URL of the loaded file
    analysisData,   \* App: optional AnalysisResult
    errorMsg,       \* App: string
    readers,        \* FileReaders whose loadend has not fired yet, oldest first
    calls,          \* handleConfirmCrop continuations awaiting their inference call
    settled,        \* history: the call answered by the last step, with its reply, if any
    isDragging,     \* MinimapSelector state
    startPos,       \* MinimapSelector state: optional position
    currentPos,     \* MinimapSelector state: optional position
    selection       \* MinimapSelector state: optional MinimapBounds

normVars == <<apiKey, manualBounds, reply, provider, outcome>>

selectorVars == <<isDragging, startPos, currentPos, selection>>

appVars == <<state, imageSrc, analysisData, errorMsg, readers, calls>>

vars == <<normVars, appVars, settled, selectorVars>>


\* ---------------------------------------------------------------- bounds
MaxCoord == 2
MaxIcons == 2
MaxReaders == 2     \* FileReaders pending at once
MaxCalls == 2       \* inference calls outstanding at once

\* ------------------------------------------------------- optional values
None == <<>>
Some(v) == <<v>>

\* ------------------------------------------------------ JavaScript numbers
RECURSIVE GCD(_, _)
GCD(a, b) == IF b = 0 THEN a ELSE GCD(b, a % b)

Abs(i) == IF i < 0 THEN -i ELSE i
Sign(i) == IF i < 0 THEN -1 ELSE IF i > 0 THEN 1 ELSE 0

NaN == [n |-> 0, d |-> 0]
IsNaN(a) == a.d = 0 /\ a.n = 0
IsFinite(a) == a.d # 0

\* the number n/d: lowest terms when finite, NaN or +-Infinity when d = 0
Norm(n, d) ==
    IF d = 0 THEN [n |-> Sign(n), d |-> 0]
    ELSE LET g == GCD(Abs(n), Abs(d))
         IN [n |-> (Sign(d) * n) \div g, d |-> Abs(d) \div g]

Int2Num(i) == [n |-> i, d |-> 1]

\* a - b
NumSub(a, b) ==
    IF IsNaN(a) \/ IsNaN(b) THEN NaN
    ELSE IF ~IsFinite(a) /\ ~IsFinite(b) THEN (IF a.n = b.n THEN NaN ELSE a)
    ELSE IF ~IsFinite(a) THEN a
    ELSE IF ~IsFinite(b) THEN [n |-> -b.n, d |-> 0]
    ELSE Norm(a.n * b.d - b.n * a.d, a.d * b.d)

\* a * b
NumMul(a, b) ==
    IF IsNaN(a) \/ IsNaN(b) THEN NaN
    ELSE IF IsFinite(a) /\ IsFinite(b) THEN Norm(a.n * b.n, a.d * b.d)
    ELSE [n |-> Sign(a.n) * Sign(b.n), d |-> 0]

\* a / b: x/0 is +-Infinity, 0/0 is NaN
NumDiv(a, b) ==
    IF IsNaN(a) \/ IsNaN(b) THEN NaN
    ELSE IF IsFinite(a) /\ IsFinite(b) THEN Norm(a.n * b.d, a.d * b.n)
    ELSE IF IsFinite(a) THEN Int2Num(0)
    ELSE IF IsFinite(b) THEN [n |-> a.n * (IF b.n < 0 THEN -1 ELSE 1), d |-> 0]
    ELSE NaN

\* a <= b: false when either side is NaN
NumLe(a, b) ==
    IF IsNaN(a) \/ IsNaN(b) THEN FALSE
    ELSE IF ~IsFinite(a) /\ ~IsFinite(b) THEN a.n <= b.n
    ELSE a.n * b.d <= b.n * a.d

NumGe(a, b) == NumLe(b, a)

\* Math.min / Math.max: NaN when either argument is NaN
MathMin(a, b) ==
    IF IsNaN(a) \/ IsNaN(b) THEN NaN ELSE IF NumLe(a, b) THEN a ELSE b

MathMax(a, b) ==
    IF IsNaN(a) \/ IsNaN(b) THEN NaN ELSE IF NumLe(a, b) THEN b ELSE a


\* ------------------------------------------------------------- sequences
\* Array.prototype.filter(p => p !== null) on an array of optional values
RECURSIVE FilterNotNull(_)
FilterNotNull(s) ==
    IF s = <<>> THEN <<>>
    ELSE IF Head(s) = None THEN FilterNotNull(Tail(s))
    ELSE <<Head(s)[1]>> \o FilterNotNull(Tail(s))

\* ------------------------------------------------------ promise outcomes
Pending == [status |-> "pending", value |-> None]
Rejected == [status |-> "rejected", value |-> None]
Resolved(v) == [status |-> "resolved", value |-> Some(v)]

\* JSON.parse of the reply text: throws on text that is no JSON
JSONparseThrows(r) == r.kind = "garbage"

\* ------------------------------------------------- services/openaiService.ts: analyzeWithOpenAI
\* the rectangle that filters and places the icons
\* mutant: the model's guess wins over the manual rectangle
mapBoxOpenAI_modelFirst(rawData, manual) ==
    IF rawData.minimapLocation # None THEN rawData.minimapLocation[1]
    ELSE IF manual # None THEN manual[1]
    ELSE [xmin |-> 0, ymin |-> 0, xmax |-> 200, ymax |-> 200]

mapBoxOpenAI(rawData, manual) ==
    IF manual # None THEN manual[1]
    ELSE IF rawData.minimapLocation # None THEN rawData.minimapLocation[1]
    ELSE [xmin |-> 0, ymin |-> 0, xmax |-> 200, ymax |-> 200]

\* the width with a guard, (xmax - xmin) || 1
mapWidthOpenAI_orOne(mapBox) ==
    IF mapBox.xmax - mapBox.xmin = 0 THEN 1 ELSE mapBox.xmax - mapBox.xmin

mapWidthOpenAI(mapBox) == mapBox.xmax - mapBox.xmin
mapHeightOpenAI(mapBox) == mapBox.ymax - mapBox.ymin

iconCenterYOpenAI(icon) ==
    NumDiv(Int2Num(icon.boundingBox.ymin + icon.boundingBox.ymax), Int2Num(2))
iconCenterXOpenAI(icon) ==
    NumDiv(Int2Num(icon.boundingBox.xmin + icon.boundingBox.xmax), Int2Num(2))

\* mutant: the far edges are exclusive
isInsideOpenAI_strict(icon, mapBox) ==
    /\ NumGe(iconCenterXOpenAI(icon), Int2Num(mapBox.xmin))
    /\ ~NumGe(iconCenterXOpenAI(icon), Int2Num(mapBox.xmax))
    /\ NumGe(iconCenterYOpenAI(icon), Int2Num(mapBox.ymin))
    /\ ~NumGe(iconCenterYOpenAI(icon), Int2Num(mapBox.ymax))

isInsideOpenAI(icon, mapBox) ==
    /\ NumGe(iconCenterXOpenAI(icon), Int2Num(mapBox.xmin))
    /\ NumLe(iconCenterXOpenAI(icon), Int2Num(mapBox.xmax))
    /\ NumGe(iconCenterYOpenAI(icon), Int2Num(mapBox.ymin))
    /\ NumLe(iconCenterYOpenAI(icon), Int2Num(mapBox.ymax))

\* relX, relY after the clamp
relXOpenAI(icon, mapBox) ==
    LET raw == NumMul(NumDiv(NumSub(iconCenterXOpenAI(icon), Int2Num(mapBox.xmin)),
                             Int2Num(mapWidthOpenAI(mapBox))), Int2Num(100))
    IN MathMax(Int2Num(0), MathMin(Int2Num(100), raw))

\* mutant: the vertical offset is divided by the width
relYOpenAI_byWidth(icon, mapBox) ==
    LET raw == NumMul(NumDiv(NumSub(iconCenterYOpenAI(icon), Int2Num(mapBox.ymin)),
                             Int2Num(mapWidthOpenAI(mapBox))), Int2Num(100))
    IN MathMax(Int2Num(0), MathMin(Int2Num(100), raw))

relYOpenAI(icon, mapBox) ==
    LET raw == NumMul(NumDiv(NumSub(iconCenterYOpenAI(icon), Int2Num(mapBox.ymin)),
                             Int2Num(mapHeightOpenAI(mapBox))), Int2Num(100))
    IN MathMax(Int2Num(0), MathMin(Int2Num(100), raw))

\* mutant: no inclusion test, the clamp alone bounds the position
toPlayerOpenAI_noFilter(icon, mapBox) ==
    Some([team |-> icon.team, agentGuess |-> icon.agentGuess,
          x |-> relXOpenAI(icon, mapBox), y |-> relYOpenAI(icon, mapBox)])

\* the callback of detectedIcons.map: a PlayerPosition or null
toPlayerOpenAI(icon, mapBox) ==
    IF ~isInsideOpenAI(icon, mapBox) THEN None
    ELSE Some([team |-> icon.team, agentGuess |-> icon.agentGuess,
               x |-> relXOpenAI(icon, mapBox), y |-> relYOpenAI(icon, mapBox)])

playersOpenAI(detectedIcons, mapBox) ==
    FilterNotNull([i \in 1..Len(detectedIcons) |-> toPlayerOpenAI(detectedIcons[i], mapBox)])

\* post-processing of the parsed reply; property access on null and .map on
\* undefined throw a TypeError, which rejects the promise
postProcessOpenAI(json, manual) ==
    IF json = None THEN Rejected
    ELSE LET rawData == json[1]
             mapBox == mapBoxOpenAI(rawData, manual)
         IN IF rawData.detectedIcons = None THEN Rejected
            ELSE Resolved([mapName |-> rawData.mapName,
                           minimapBounds |-> Some(mapBox),
                           players |-> Some(playersOpenAI(rawData.detectedIcons[1], mapBox)),
                           summary |-> rawData.summary])

analyzeWithOpenAI(key, r, manual) ==
    IF ~key THEN Rejected                      \* missing API key
    ELSE IF r.kind = "reject" THEN Rejected       \* fetch rejects
    ELSE IF r.kind = "notok" THEN Rejected        \* !response.ok
    ELSE IF r.kind = "empty" THEN Rejected        \* no content
    ELSE IF JSONparseThrows(r) THEN Rejected
    ELSE postProcessOpenAI(r.json, manual)

\* ------------------------------------------------- services/geminiService.ts, revision with manual bounds: analyzeValorantScreenshot
\* the rectangle that filters and places the icons
\* mutant: the fallback is the selector's default rectangle
mapBoxGemini_fallback250(rawData, manual) ==
    IF manual # None THEN manual[1]
    ELSE IF rawData.minimapLocation # None THEN rawData.minimapLocation[1]
    ELSE [xmin |-> 0, ymin |-> 0, xmax |-> 250, ymax |-> 250]

mapBoxGemini(rawData, manual) ==
    IF manual # None THEN manual[1]
    ELSE IF rawData.minimapLocation # None THEN rawData.minimapLocation[1]
    ELSE [xmin |-> 0, ymin |-> 0, xmax |-> 200, ymax |-> 200]

mapWidthGemini(mapBox) == mapBox.xmax - mapBox.xmin
mapHeightGemini(mapBox) == mapBox.ymax - mapBox.ymin

iconCenterYGemini(icon) ==
    NumDiv(Int2Num(icon.boundingBox.ymin + icon.boundingBox.ymax), Int2Num(2))
\* mutant: the left edge of the box stands for the icon
iconCenterXGemini_leftEdge(icon) == Int2Num(icon.boundingBox.xmin)

iconCenterXGemini(icon) ==
    NumDiv(Int2Num(icon.boundingBox.xmin + icon.boundingBox.xmax), Int2Num(2))

isInsideGemini(icon, mapBox) ==
    /\ NumGe(iconCenterXGemini(icon), Int2Num(mapBox.xmin))
    /\ NumLe(iconCenterXGemini(icon), Int2Num(mapBox.xmax))
    /\ NumGe(iconCenterYGemini(icon), Int2Num(mapBox.ymin))
    /\ NumLe(iconCenterYGemini(icon), Int2Num(mapBox.ymax))

\* mutant: the position is put on the 0-1000 scale of the boxes
relXGemini_scale1000(icon, mapBox) ==
    LET raw == NumMul(NumDiv(NumSub(iconCenterXGemini(icon), Int2Num(mapBox.xmin)),
                             Int2Num(mapWidthGemini(mapBox))), Int2Num(1000))
    IN MathMax(Int2Num(0), MathMin(Int2Num(1000), raw))

\* relX, relY after the clamp
relXGemini(icon, mapBox) ==
    LET raw == NumMul(NumDiv(NumSub(iconCenterXGemini(icon), Int2Num(mapBox.xmin)),
                             Int2Num(mapWidthGemini(mapBox))), Int2Num(100))
    IN MathMax(Int2Num(0), MathMin(Int2Num(100), raw))

relYGemini(icon, mapBox) ==
    LET raw == NumMul(NumDiv(NumSub(iconCenterYGemini(icon), Int2Num(mapBox.ymin)),
                             Int2Num(mapHeightGemini(mapBox))), Int2Num(100))
    IN MathMax(Int2Num(0), MathMin(Int2Num(100), raw))

\* the callback of detectedIcons.map: a PlayerPosition or null
toPlayerGemini(icon, mapBox) ==
    IF ~isInsideGemini(icon, mapBox) THEN None
    ELSE Some([team |-> icon.team, agentGuess |-> icon.agentGuess,
               x |-> relXGemini(icon, mapBox), y |-> relYGemini(icon, mapBox)])

\* mutant: the players come out in reverse order
playersGemini_reversed(detectedIcons, mapBox) ==
    FilterNotNull([i \in 1..Len(detectedIcons) |->
                      toPlayerGemini(detectedIcons[Len(detectedIcons) + 1 - i], mapBox)])

playersGemini(detectedIcons, mapBox) ==
    FilterNotNull([i \in 1..Len(detectedIcons) |-> toPlayerGemini(detectedIcons[i], mapBox)])

\* post-processing of the parsed reply; property access on null and .map on
\* undefined throw a TypeError, which rejects the promise
postProcessGemini(json, manual) ==
    IF json = None THEN Rejected
    ELSE LET rawData == json[1]
             mapBox == mapBoxGemini(rawData, manual)
         IN IF rawData.detectedIcons = None THEN Rejected
            ELSE Resolved([mapName |-> rawData.mapName,
                           minimapBounds |-> Some(mapBox),
                           players |-> Some(playersGemini(rawData.detectedIcons[1], mapBox)),
                           summary |-> rawData.summary])

\* generateContent rejects on a transport error and on a non-success status
analyzeValorantScreenshotManual(r, manual) ==
    IF r.kind = "reject" \/ r.kind = "notok" THEN Rejected
    ELSE IF r.kind = "empty" THEN Rejected        \* no response.text
    ELSE IF JSONparseThrows(r) THEN Rejected
    ELSE postProcessGemini(r.json, manual)

\* ------------------------------------------------- services/geminiService.ts, revision without manual bounds: analyzeValorantScreenshot
\* the reported region is the rectangle; the caller guards its absence
mapBoxLocated(rawData) == rawData.minimapLocation[1]

mapWidthLocated(mapBox) == mapBox.xmax - mapBox.xmin
mapHeightLocated(mapBox) == mapBox.ymax - mapBox.ymin

iconCenterYLocated(icon) ==
    NumDiv(Int2Num(icon.boundingBox.ymin + icon.boundingBox.ymax), Int2Num(2))
iconCenterXLocated(icon) ==
    NumDiv(Int2Num(icon.boundingBox.xmin + icon.boundingBox.xmax), Int2Num(2))

\* an inclusion test on the icon's box: any overlap with the rectangle counts
isInsideLocated_overlap(icon, mapBox) ==
    /\ icon.boundingBox.xmax >= mapBox.xmin /\ icon.boundingBox.xmin <= mapBox.xmax
    /\ icon.boundingBox.ymax >= mapBox.ymin /\ icon.boundingBox.ymin <= mapBox.ymax

isInsideLocated(icon, mapBox) ==
    /\ NumGe(iconCenterXLocated(icon), Int2Num(mapBox.xmin))
    /\ NumLe(iconCenterXLocated(icon), Int2Num(mapBox.xmax))
    /\ NumGe(iconCenterYLocated(icon), Int2Num(mapBox.ymin))
    /\ NumLe(iconCenterYLocated(icon), Int2Num(mapBox.ymax))

\* relX, relY as first assigned, before the clamp
rawRelXLocated(icon, mapBox) ==
    NumMul(NumDiv(NumSub(iconCenterXLocated(icon), Int2Num(mapBox.xmin)),
                  Int2Num(mapWidthLocated(mapBox))), Int2Num(100))
rawRelYLocated(icon, mapBox) ==
    NumMul(NumDiv(NumSub(iconCenterYLocated(icon), Int2Num(mapBox.ymin)),
                  Int2Num(mapHeightLocated(mapBox))), Int2Num(100))

\* Math.max(0, Math.min(100, v))
clampLocated(v) == MathMax(Int2Num(0), MathMin(Int2Num(100), v))

toPlayerLocated(icon, mapBox) ==
    IF ~isInsideLocated(icon, mapBox) THEN None
    ELSE Some([team |-> icon.team, agentGuess |-> icon.agentGuess,
               x |-> clampLocated(rawRelXLocated(icon, mapBox)),
               y |-> clampLocated(rawRelYLocated(icon, mapBox))])

playersLocated(detectedIcons, mapBox) ==
    FilterNotNull([i \in 1..Len(detectedIcons) |-> toPlayerLocated(detectedIcons[i], mapBox)])

\* reading xmax of an absent minimapLocation, or .map of an absent
\* detectedIcons, throws a TypeError, which rejects the promise
postProcessLocated(json) ==
    IF json = None THEN Rejected
    ELSE LET rawData == json[1]
         IN IF rawData.minimapLocation = None \/ rawData.detectedIcons = None
            THEN Rejected
            ELSE Resolved([mapName |-> rawData.mapName,
                           minimapBounds |-> Some(mapBoxLocated(rawData)),
                           players |-> Some(playersLocated(rawData.detectedIcons[1],
                                                           mapBoxLocated(rawData))),
                           summary |-> rawData.summary])

analyzeValorantScreenshotLocated(r) ==
    IF r.kind = "reject" \/ r.kind = "notok" THEN Rejected
    ELSE IF r.kind = "empty" THEN Rejected        \* no response.text
    ELSE IF JSONparseThrows(r) THEN Rejected
    ELSE postProcessLocated(r.json)


\* =========================================================================
\* The analyze operation on bounded inputs
\* =========================================================================
Coord == 0..MaxCoord

Rect(x0, y0, x1, y1) == [xmin |-> x0, ymin |-> y0, xmax |-> x1, ymax |-> y1]

\* every rectangle over the coordinates, degenerate and inverted ones included
Rects == [xmin : Coord, ymin : Coord, xmax : Coord, ymax : Coord]

\* model guesses offered next to a manual rectangle
GuessRects == {Rect(0, 0, 1, 1), Rect(1, 1, MaxCoord, MaxCoord)}

\* icon boxes: small markers, at most one unit wide and high
IconBoxes ==
    {b \in Rects : /\ b.xmin <= b.xmax /\ b.xmax <= b.xmin + 1
                   /\ b.ymin <= b.ymax /\ b.ymax <= b.ymin + 1}

Labels == {[team |-> "Red", agentGuess |-> None],
           [team |-> "Blue", agentGuess |-> Some("Jett")]}

Icons == {[team |-> l.team, agentGuess |-> l.agentGuess, boundingBox |-> b] :
              l \in Labels, b \in IconBoxes}

\* icons of the longer lists: boxes on the diagonal
ListIcons == {i \in Icons : /\ i.boundingBox.xmin = i.boundingBox.ymin
                            /\ i.boundingBox.xmax = i.boundingBox.ymax}

SeqsOf(S, lo, hi) == UNION {[1..k -> S] : k \in lo..hi}

\* a reply whose text parses to an object; a key the object lacks reads as None
JsonObject(mapName, minimapLocation, detectedIcons, summary, minimapBounds, players) ==
    [kind |-> "json",
     json |-> Some([mapName |-> mapName, minimapLocation |-> minimapLocation,
                    detectedIcons |-> detectedIcons, summary |-> summary,
                    minimapBounds |-> minimapBounds, players |-> players])]

\* a reply in the shape of RawAnalysisResponse
JsonReply(mapName, minimapLocation, detectedIcons, summary) ==
    JsonObject(mapName, minimapLocation, detectedIcons, summary, None, None)

FailureReply(kind) == [kind |-> kind, json |-> None]

FailureKinds == {"reject", "notok", "empty", "garbage"}

\* the App as constructed: useState initial values, nothing pending
AppAtRest ==
    /\ state = "IDLE"
    /\ imageSrc = None
    /\ analysisData = None
    /\ errorMsg = ""
    /\ readers = <<>>
    /\ calls = <<>>
    /\ settled = None
    /\ isDragging = FALSE
    /\ startPos = None
    /\ currentPos = None
    /\ selection = None

\* one detection at most, every rectangle
InitSingle ==
    /\ apiKey = TRUE
    /\ \/ manualBounds \in {Some(r) : r \in Rects}
          /\ \E loc \in {None} \cup {Some(g) : g \in GuessRects},
                icons \in SeqsOf(Icons, 0, 1) :
                 reply = JsonReply(Some("Haven"), loc, Some(icons), Some("s"))
       \/ manualBounds = None
          /\ \E loc \in {None} \cup {Some(r) : r \in Rects},
                icons \in SeqsOf(Icons, 0, 1) :
                 reply = JsonReply(Some("Haven"), loc, Some(icons), Some("s"))

\* lists of detections
InitList ==
    /\ apiKey = TRUE
    /\ manualBounds \in {None} \cup {Some(g) : g \in GuessRects}
    /\ \E loc \in {None} \cup {Some(g) : g \in GuessRects},
          icons \in SeqsOf(ListIcons, 2, MaxIcons) :
           reply = JsonReply(Some("Bind"), loc, Some(icons), Some("t"))

\* the replies that carry no JSON
InitFailure ==
    /\ apiKey \in BOOLEAN
    /\ manualBounds \in {None} \cup {Some(g) : g \in GuessRects}
    /\ reply \in {FailureReply(k) : k \in FailureKinds}

\* the documented scenarios on the 0-1000 scale
ScenarioIcons ==
    <<[team |-> "Red", agentGuess |-> None, boundingBox |-> Rect(50, 50, 70, 70)],
      [team |-> "Blue", agentGuess |-> None, boundingBox |-> Rect(900, 900, 920, 920)]>>

InitScenario ==
    /\ apiKey \in BOOLEAN
    /\ manualBounds \in {None, Some(Rect(0, 0, 300, 300))}
    /\ \E loc \in {None, Some(Rect(0, 0, 200, 200)), Some(Rect(100, 100, 400, 400))} :
           reply = JsonReply(Some("Haven"), loc, Some(ScenarioIcons), Some("s"))

\* replies that parse but lack keys of the response schema, and the reply "null"
InitMissing ==
    /\ apiKey = TRUE
    /\ manualBounds \in {None, Some(Rect(0, 0, MaxCoord, MaxCoord))}
    /\ \/ \E mapName \in {None, Some("Haven")},
             loc \in {None, Some(Rect(0, 0, 1, 1))},
             icons \in {None} \cup {Some(s) : s \in SeqsOf(ListIcons, 0, 1)},
             summary \in {None, Some("s")} :
              reply = JsonReply(mapName, loc, icons, summary)
       \/ reply = [kind |-> "json", json |-> None]

InitNormalizer ==
    /\ InitSingle \/ InitList \/ InitFailure \/ InitScenario \/ InitMissing
    /\ provider = "none"
    /\ outcome = Pending
    /\ AppAtRest

CallOpenAI ==
    /\ provider = "none"
    /\ outcome' = analyzeWithOpenAI(apiKey, reply, manualBounds)
    /\ provider' = "openai"
    /\ UNCHANGED <<apiKey, manualBounds, reply, appVars, settled, selectorVars>>

CallGemini ==
    /\ provider = "none"
    /\ outcome' = analyzeValorantScreenshotManual(reply, manualBounds)
    /\ provider' = "gemini"
    /\ UNCHANGED <<apiKey, manualBounds, reply, appVars, settled, selectorVars>>

NextNormalizer == CallOpenAI \/ CallGemini

SpecNormalizer == InitNormalizer /\ [][NextNormalizer]_vars


\* =========================================================================
\* Properties of the analyze operation
\* =========================================================================
Succeeded == provider # "none" /\ outcome.status = "resolved"
Result == outcome.value[1]
RawData == reply.json[1]
DetectedIcons == RawData.detectedIcons[1]
ResolvedBox == Result.minimapBounds[1]
Players == Result.players[1]

\* a reply the binding can post-process: JSON with an icon list, key present
WellFormedCall ==
    /\ provider # "none"
    /\ reply.kind = "json" /\ reply.json # None
    /\ RawData.detectedIcons # None
    /\ provider = "openai" => apiKey

PositiveBox(b) == b.xmax > b.xmin /\ b.ymax > b.ymin

\* twice the centre of a bounding box, in integers
Centre2X(icon) == icon.boundingBox.xmin + icon.boundingBox.xmax
Centre2Y(icon) == icon.boundingBox.ymin + icon.boundingBox.ymax

CentreWithin(icon, b) ==
    /\ 2 * b.xmin <= Centre2X(icon) /\ Centre2X(icon) <= 2 * b.xmax
    /\ 2 * b.ymin <= Centre2Y(icon) /\ Centre2Y(icon) <= 2 * b.ymax

\* the indices of the detections whose centre lies within b, ascending
KeptIndices(icons, b) ==
    SelectSeq([i \in 1..Len(icons) |-> i], LAMBDA i : CentreWithin(icons[i], b))

\* (c - lo) / size * 100 for a centre given as twice its value
Percent(c2, lo, size) == Norm((c2 - 2 * lo) * 100, 2 * size)


\* C1: whenever manual bounds are passed, the minimapBounds of the returned
\* result is the manual rectangle, and the icons are filtered and placed
\* against it, whatever minimapLocation the reply carries (present or absent).
C1_ManualPrecedence ==
    (Succeeded /\ manualBounds # None) =>
        /\ Result.minimapBounds = manualBounds
        /\ Len(Players) = Len(KeptIndices(DetectedIcons, manualBounds[1]))
        /\ PositiveBox(manualBounds[1]) =>
             \A k \in 1..Len(Players) :
                LET icon == DetectedIcons[KeptIndices(DetectedIcons, manualBounds[1])[k]]
                    m == manualBounds[1]
                IN /\ Players[k].x = Percent(Centre2X(icon), m.xmin, m.xmax - m.xmin)
                   /\ Players[k].y = Percent(Centre2Y(icon), m.ymin, m.ymax - m.ymin)

\* a manual rectangle next to a different model guess that would have dropped
\* the detection the manual rectangle keeps
C1_Witness ==
    /\ Succeeded /\ manualBounds # None
    /\ RawData.minimapLocation # None
    /\ RawData.minimapLocation # manualBounds
    /\ Len(DetectedIcons) = 1 /\ Len(Players) = 1
    /\ ~CentreWithin(DetectedIcons[1], RawData.minimapLocation[1])

\* C2: with no manual bounds the resolved rectangle is the reply's
\* minimapLocation when there is one and {0,0,200,200} when there is none,
\* and the analysis succeeds in both cases.
C2_Fallback ==
    (WellFormedCall /\ manualBounds = None) =>
        /\ Succeeded
        /\ Result.minimapBounds =
              IF RawData.minimapLocation # None THEN RawData.minimapLocation
              ELSE Some(Rect(0, 0, 200, 200))

\* neither manual bounds nor minimapLocation, and a detection placed in the default
C2_Witness ==
    /\ Succeeded /\ manualBounds = None
    /\ RawData.minimapLocation = None
    /\ ResolvedBox = Rect(0, 0, 200, 200)
    /\ Len(Players) = 1

\* C3: a detection yields a player iff its centre lies within the resolved
\* rectangle, edges and corners included.
C3_InclusionTest ==
    Succeeded =>
        /\ Len(Players) = Len(KeptIndices(DetectedIcons, ResolvedBox))
        /\ Len(DetectedIcons) = 1 =>
             (Players # <<>> <=> CentreWithin(DetectedIcons[1], ResolvedBox))

\* one detection centred on the bottom-right corner and kept, another strictly
\* outside and dropped
C3_Witness ==
    /\ Succeeded /\ PositiveBox(ResolvedBox)
    /\ Len(DetectedIcons) = 2 /\ Len(Players) = 1
    /\ \E i \in 1..2 :
          /\ Centre2X(DetectedIcons[i]) = 2 * ResolvedBox.xmax
          /\ Centre2Y(DetectedIcons[i]) = 2 * ResolvedBox.ymax
    /\ \E j \in 1..2 : Centre2X(DetectedIcons[j]) > 2 * ResolvedBox.xmax

\* C4: for a resolved rectangle of positive width and height every returned
\* player has 0 <= x <= 100 and 0 <= y <= 100.
C4_OutputRange ==
    (Succeeded /\ PositiveBox(ResolvedBox)) =>
        \A k \in 1..Len(Players) :
            /\ NumLe(Int2Num(0), Players[k].x) /\ NumLe(Players[k].x, Int2Num(100))
            /\ NumLe(Int2Num(0), Players[k].y) /\ NumLe(Players[k].y, Int2Num(100))

\* a player on the right edge, half way down
C4_Witness ==
    /\ Succeeded /\ PositiveBox(ResolvedBox)
    /\ \E k \in 1..Len(Players) :
          Players[k].x = Int2Num(100) /\ Players[k].y = Int2Num(50)

\* C5: for a rectangle of positive width and height a kept detection is placed
\* at x = (cx - xmin) / (xmax - xmin) * 100, y = (cy - ymin) / (ymax - ymin) * 100;
\* the top-left corner maps to (0,0), the bottom-right corner to (100,100).
C5_PlacementFormula ==
    (Succeeded /\ PositiveBox(ResolvedBox)) =>
        LET kept == KeptIndices(DetectedIcons, ResolvedBox)
            b == ResolvedBox
        IN /\ Len(Players) = Len(kept)
           /\ \A k \in 1..Len(Players) :
                LET icon == DetectedIcons[kept[k]]
                IN /\ Players[k].x = Percent(Centre2X(icon), b.xmin, b.xmax - b.xmin)
                   /\ Players[k].y = Percent(Centre2Y(icon), b.ymin, b.ymax - b.ymin)
                   /\ Centre2X(icon) = 2 * b.xmin => Players[k].x = Int2Num(0)
                   /\ Centre2Y(icon) = 2 * b.ymin => Players[k].y = Int2Num(0)
                   /\ Centre2X(icon) = 2 * b.xmax => Players[k].x = Int2Num(100)
                   /\ Centre2Y(icon) = 2 * b.ymax => Players[k].y = Int2Num(100)

\* a rectangle twice as wide as high: the centre (0.5, 0.5) lands on (25, 50)
C5_Witness ==
    /\ Succeeded
    /\ ResolvedBox.xmax - ResolvedBox.xmin = 2 /\ ResolvedBox.ymax - ResolvedBox.ymin = 1
    /\ Len(Players) = 1
    /\ Players[1].x = Int2Num(25) /\ Players[1].y = Int2Num(50)

\* C6: the players are exactly the kept detections, in the order of
\* detectedIcons, each with the team and agentGuess of its own detection.
C6_OrderAndCardinality ==
    Succeeded =>
        LET kept == KeptIndices(DetectedIcons, ResolvedBox)
        IN /\ Len(Players) = Len(kept)
           /\ \A k \in 1..Len(Players) :
                /\ Players[k].team = DetectedIcons[kept[k]].team
                /\ Players[k].agentGuess = DetectedIcons[kept[k]].agentGuess

\* two kept detections of different teams, the Blue one first
C6_Witness ==
    /\ Succeeded
    /\ Len(DetectedIcons) = 2 /\ Len(Players) = 2
    /\ DetectedIcons[1].team = "Blue" /\ DetectedIcons[2].team = "Red"
    /\ Players[1].team = "Blue" /\ Players[1].agentGuess = Some("Jett")
    /\ Players[2].team = "Red" /\ Players[2].agentGuess = None

\* C7: with no manual bounds the Haven reply with minimapLocation {0,0,200,200}
\* yields {Haven, {0,0,200,200}, [Red at (30,30)], "s"}: the Blue icon is dropped.
C7_EndToEnd ==
    ( /\ provider # "none"
      /\ provider = "openai" => apiKey
      /\ manualBounds = None
      /\ reply = JsonReply(Some("Haven"), Some(Rect(0, 0, 200, 200)),
                           Some(ScenarioIcons), Some("s")) ) =>
        outcome = Resolved([mapName |-> Some("Haven"),
                            minimapBounds |-> Some(Rect(0, 0, 200, 200)),
                            players |-> Some(<<[team |-> "Red", agentGuess |-> None,
                                                x |-> Int2Num(30), y |-> Int2Num(30)]>>),
                            summary |-> Some("s")])

C7_Witness ==
    /\ Succeeded /\ manualBounds = None
    /\ DetectedIcons = ScenarioIcons
    /\ ResolvedBox = Rect(0, 0, 200, 200)
    /\ Len(Players) = 1 /\ Players[1].x = Int2Num(30)

\* the detections whose centre is exactly one unit outside b along x, with the
\* other axis in range
OneUnitOutside(icons, b) ==
    {i \in 1..Len(icons) :
        /\ \/ Centre2X(icons[i]) = 2 * b.xmax + 2
           \/ Centre2X(icons[i]) = 2 * b.xmin - 2
        /\ 2 * b.ymin <= Centre2Y(icons[i]) /\ Centre2Y(icons[i]) <= 2 * b.ymax}

\* C8 as stated: a detection whose centre lies 1 unit outside the resolved
\* rectangle appears in the output, its coordinate clamped to 0 or 100.
C8_ClampedOutsideAppears ==
    (Succeeded /\ PositiveBox(ResolvedBox) /\ Len(DetectedIcons) = 1
       /\ OneUnitOutside(DetectedIcons, ResolvedBox) # {}) =>
        /\ Len(Players) = 1
        /\ Players[1].x \in {Int2Num(0), Int2Num(100)}

\* C8 amended: a detection whose centre lies 1 unit outside the resolved
\* rectangle does not appear in the output: the inclusion test drops it before
\* the clamp runs.
C8_OutsideDropped ==
    Succeeded =>
        Len(Players) <=
            Len(DetectedIcons) - Cardinality(OneUnitOutside(DetectedIcons, ResolvedBox))

\* a single detection one unit to the right of the rectangle, and no player
C8_Witness ==
    /\ Succeeded /\ PositiveBox(ResolvedBox)
    /\ Len(DetectedIcons) = 1
    /\ Centre2X(DetectedIcons[1]) = 2 * ResolvedBox.xmax + 2
    /\ OneUnitOutside(DetectedIcons, ResolvedBox) = {1}
    /\ Players = <<>>


\* =========================================================================
\* services/geminiService.ts: the analyzeValorantScreenshot that App.tsx
\* imports.  It takes the image alone and returns the parsed reply as it is.
\* =========================================================================
analyzeValorantScreenshot(base64Image, r) ==
    IF r.kind = "reject" \/ r.kind = "notok" THEN Rejected
    ELSE IF r.kind = "empty" THEN Rejected        \* no response.text
    ELSE IF JSONparseThrows(r) THEN Rejected
    ELSE IF r.json = None THEN [status |-> "resolved", value |-> None]  \* null
    ELSE Resolved([mapName |-> r.json[1].mapName,
                   minimapBounds |-> r.json[1].minimapBounds,
                   players |-> r.json[1].players,
                   summary |-> r.json[1].summary])

\* =========================================================================
\* components/MinimapSelector.tsx
\* =========================================================================
NumGt(a, b) == NumLe(b, a) /\ ~NumLe(a, b)

\* Math.round: the nearest integer, halves up; NaN and +-Infinity unchanged
MathRound(a) ==
    IF ~IsFinite(a) THEN a ELSE Int2Num((2 * a.n + a.d) \div (2 * a.d))

\* getMousePos without Math.max / Math.min around the pointer offset
getMousePos_noClamp(e) ==
    LET scaleX == NumDiv(Int2Num(1000), Int2Num(e.width))
        scaleY == NumDiv(Int2Num(1000), Int2Num(e.height))
    IN [x |-> MathRound(NumMul(Int2Num(e.dx), scaleX)),
        y |-> MathRound(NumMul(Int2Num(e.dy), scaleY))]

\* a pointer event: dx, dy are clientX - rect.left and clientY - rect.top,
\* width and height those of the image's bounding rectangle
getMousePos(e) ==
    LET x == MathMax(Int2Num(0), MathMin(Int2Num(e.dx), Int2Num(e.width)))
        y == MathMax(Int2Num(0), MathMin(Int2Num(e.dy), Int2Num(e.height)))
        scaleX == NumDiv(Int2Num(1000), Int2Num(e.width))
        scaleY == NumDiv(Int2Num(1000), Int2Num(e.height))
    IN [x |-> MathRound(NumMul(x, scaleX)), y |-> MathRound(NumMul(y, scaleY))]

\* the selector is rendered, and holds state, only while this is true
Mounted(st, img) == st = "CROP" /\ img # None

\* the default suggestion set by the mount effect
defaultSelection == Rect(0, 0, 250, 250)

\* the selector's state after an App step that takes (st, img) to (st2, img2)
SelectorFollows(st, img, st2, img2) ==
    IF Mounted(st2, img2) /\ ~Mounted(st, img)
    THEN /\ isDragging' = FALSE /\ startPos' = None /\ currentPos' = None
         /\ selection' = Some(defaultSelection)
    ELSE IF Mounted(st2, img2) THEN UNCHANGED selectorVars
    ELSE /\ isDragging' = FALSE /\ startPos' = None /\ currentPos' = None
         /\ selection' = None

\* handleMouseDown without setSelection(null)
handleMouseDown_keepsSelection(e) ==
    /\ startPos' = Some(getMousePos(e))
    /\ currentPos' = Some(getMousePos(e))
    /\ isDragging' = TRUE
    /\ UNCHANGED selection

handleMouseDown(e) ==
    /\ startPos' = Some(getMousePos(e))
    /\ currentPos' = Some(getMousePos(e))
    /\ isDragging' = TRUE
    /\ selection' = None

handleMouseMove(e) ==
    /\ isDragging /\ startPos # None
    /\ currentPos' = Some(getMousePos(e))
    /\ UNCHANGED <<isDragging, startPos, selection>>

\* a selection of integers, from positions the size test has found finite
newSelection(a, b) ==
    [xmin |-> MathMin(a.x, b.x).n, ymin |-> MathMin(a.y, b.y).n,
     xmax |-> MathMax(a.x, b.x).n, ymax |-> MathMax(a.y, b.y).n]

\* the minimum-size test with || in place of &&
bigEnough_either(a, b) ==
    \/ NumGt(NumSub(MathMax(a.x, b.x), MathMin(a.x, b.x)), Int2Num(20))
    \/ NumGt(NumSub(MathMax(a.y, b.y), MathMin(a.y, b.y)), Int2Num(20))

\* the minimum-size test of handleMouseUp
bigEnough(a, b) ==
    /\ NumGt(NumSub(MathMax(a.x, b.x), MathMin(a.x, b.x)), Int2Num(20))
    /\ NumGt(NumSub(MathMax(a.y, b.y), MathMin(a.y, b.y)), Int2Num(20))

\* onMouseUp and onMouseLeave
handleMouseUp ==
    /\ isDragging /\ startPos # None /\ currentPos # None
    /\ selection' = IF bigEnough(startPos[1], currentPos[1])
                    THEN Some(newSelection(startPos[1], currentPos[1]))
                    ELSE selection
    /\ isDragging' = FALSE
    /\ startPos' = None
    /\ currentPos' = None

\* =========================================================================
\* App.tsx
\* =========================================================================
Files == {[name |-> "a.png", type |-> "image/png"],
          [name |-> "b.jpg", type |-> "image/jpeg"],
          [name |-> "notes.txt", type |-> "text/plain"]}

\* file.type.startsWith('image/')
startsWithImage(type) == type \in {"image/png", "image/jpeg"}

\* reader.result of readAsDataURL, as its pieces around the comma
DataURL(f) == <<"data:" \o f.type \o ";base64", f.name>>

\* imageSrc.split(',')[1]
base64Data(src) == src[2]

RemoveAt(s, i) == SubSeq(s, 1, i - 1) \o SubSeq(s, i + 1, Len(s))

\* pointer events offered to the selector inside the App
AppEvents == {[dx |-> d, dy |-> d, width |-> 1000, height |-> 1000] : d \in {0, 20, 300}}

\* replies of the inference collaborator to the App's calls
AppReplies ==
    {FailureReply(k) : k \in FailureKinds}
    \cup {JsonObject(Some("Haven"), None, None, Some("s"), Some(Rect(0, 0, 200, 200)),
                     Some(<<[team |-> "Red", agentGuess |-> None,
                             x |-> Int2Num(30), y |-> Int2Num(30)]>>)),
          JsonObject(Some("Bind"), None, None, Some("t"), Some(defaultSelection),
                     Some(<<>>)),
          JsonReply(Some("Haven"), Some(Rect(0, 0, 200, 200)), Some(ScenarioIcons),
                    Some("s")),
          [kind |-> "json", json |-> None]}

\* the file input of the IDLE screen changes to file f
handleFileChange(f) ==
    /\ state = "IDLE"
    /\ IF ~startsWithImage(f.type)
       THEN /\ errorMsg' = "Please upload a valid image file."
            /\ UNCHANGED readers
       ELSE /\ Len(readers) < MaxReaders
            /\ readers' = Append(readers, f)
            /\ UNCHANGED errorMsg
    /\ settled' = None
    /\ UNCHANGED <<state, imageSrc, analysisData, calls, selectorVars, normVars>>

\* reader.onloadend of the i-th pending reader; ok is whether the read succeeded
readerOnLoadEnd(i, ok) ==
    /\ i \in 1..Len(readers)
    /\ imageSrc' = (IF ok THEN Some(DataURL(readers[i])) ELSE None)
    /\ errorMsg' = ""
    /\ state' = "CROP"
    /\ readers' = RemoveAt(readers, i)
    /\ SelectorFollows(state, imageSrc, state', imageSrc')
    /\ settled' = None
    /\ UNCHANGED <<analysisData, calls, normVars>>

\* mouse events on the rendered selector
SelectorMouseDown(e) ==
    /\ Mounted(state, imageSrc)
    /\ handleMouseDown(e)
    /\ settled' = None
    /\ UNCHANGED <<appVars, normVars>>

SelectorMouseMove(e) ==
    /\ Mounted(state, imageSrc)
    /\ handleMouseMove(e)
    /\ settled' = None
    /\ UNCHANGED <<appVars, normVars>>

SelectorMouseUp ==
    /\ Mounted(state, imageSrc)
    /\ handleMouseUp
    /\ settled' = None
    /\ UNCHANGED <<appVars, normVars>>

\* handleConfirmCrop up to its await: the call is issued with the image and bounds
handleConfirmCrop(bounds) ==
    /\ imageSrc # None
    /\ Len(calls) < MaxCalls
    /\ state' = "ANALYZING"
    /\ calls' = Append(calls, [base64Data |-> base64Data(imageSrc[1]), bounds |-> bounds])
    /\ SelectorFollows(state, imageSrc, state', imageSrc)
    /\ settled' = None
    /\ UNCHANGED <<imageSrc, analysisData, errorMsg, readers, normVars>>

\* the Confirm & Analyze button: disabled without a selection
ClickConfirm ==
    /\ Mounted(state, imageSrc)
    /\ selection # None
    /\ handleConfirmCrop(selection[1])

handleReset ==
    /\ state' = "IDLE"
    /\ imageSrc' = None
    /\ analysisData' = None
    /\ errorMsg' = ""
    /\ SelectorFollows(state, imageSrc, state', imageSrc')
    /\ settled' = None
    /\ UNCHANGED <<readers, calls, normVars>>

\* the selector's Cancel button
ClickCancel ==
    /\ Mounted(state, imageSrc)
    /\ handleReset

\* Analyze New Match on the result screen, Try Again on the error screen
ClickReset ==
    /\ \/ state = "SUCCESS" /\ analysisData # None /\ imageSrc # None
       \/ state = "ERROR"
    /\ handleReset

\* handleConfirmCrop after its await: the i-th outstanding call is answered by r
callSettles(i, r) ==
    /\ i \in 1..Len(calls)
    /\ LET result == analyzeValorantScreenshot(calls[i].base64Data, r)
       IN IF result.status = "resolved"
          THEN /\ analysisData' = result.value
               /\ state' = "SUCCESS"
               /\ UNCHANGED errorMsg
          ELSE /\ errorMsg' = "Failed to analyze the image. Please try a clearer screenshot."
               /\ state' = "ERROR"
               /\ UNCHANGED analysisData
    /\ calls' = RemoveAt(calls, i)
    /\ settled' = Some([call |-> calls[i], reply |-> r])
    /\ SelectorFollows(state, imageSrc, state', imageSrc)
    /\ UNCHANGED <<imageSrc, readers, normVars>>

InitApp ==
    /\ AppAtRest
    /\ apiKey = TRUE
    /\ manualBounds = None
    /\ reply = FailureReply("reject")
    /\ provider = "none"
    /\ outcome = Pending

NextApp ==
    \/ \E f \in Files : handleFileChange(f)
    \/ \E i \in 1..MaxReaders, ok \in BOOLEAN : readerOnLoadEnd(i, ok)
    \/ \E e \in AppEvents : SelectorMouseDown(e)
    \/ \E e \in AppEvents : SelectorMouseMove(e)
    \/ SelectorMouseUp
    \/ ClickConfirm
    \/ ClickCancel
    \/ ClickReset
    \/ \E i \in 1..MaxCalls, r \in AppReplies : callSettles(i, r)

SpecApp == InitApp /\ [][NextApp]_vars


\* =========================================================================
\* Properties of the App flow
\* =========================================================================
FailingReply(r) == r.kind \in FailureKinds

\* C9: whenever the App reaches SUCCESS after the user confirmed a rectangle R,
\* the analysisData it holds has minimapBounds equal to R, whatever region the
\* inference reply reported.
C9_ManualHonoured ==
    (state = "SUCCESS" /\ settled # None /\ analysisData # None) =>
        analysisData[1].minimapBounds = Some(settled[1].call.bounds)

\* C10: when the inference call rejects, returns a non-success status, an empty
\* reply or text that does not parse, the App moves from ANALYZING to ERROR with
\* a non-empty errorMsg and leaves analysisData as it was.
C10_FailureIsTotal ==
    [][(settled' # None /\ FailingReply(settled'[1].reply)) =>
          /\ state = "ANALYZING"
          /\ state' = "ERROR"
          /\ errorMsg' # ""
          /\ analysisData' = analysisData]_vars

\* =========================================================================
\* Rectangles of no width or no height
\* =========================================================================
\* C18: when the resolved rectangle has zero width or zero height and a
\* detection's centre lies on it, analyze does not fail: it resolves, keeps
\* the detection, and returns it with an x (zero width) or y (zero height)
\* that is not a finite number, the clamp notwithstanding.
C18_DegenerateNotGuarded ==
    WellFormedCall =>
        /\ Succeeded
        /\ Len(Players) = Len(KeptIndices(DetectedIcons, ResolvedBox))
        /\ ResolvedBox.xmax = ResolvedBox.xmin =>
               \A k \in 1..Len(Players) : ~IsFinite(Players[k].x)
        /\ ResolvedBox.ymax = ResolvedBox.ymin =>
               \A k \in 1..Len(Players) : ~IsFinite(Players[k].y)

\* a vertical segment with one detection on it: x is NaN, y is a number
C18_Witness ==
    /\ Succeeded
    /\ ResolvedBox.xmax = ResolvedBox.xmin /\ ResolvedBox.ymax > ResolvedBox.ymin
    /\ Len(Players) = 1
    /\ IsNaN(Players[1].x) /\ IsFinite(Players[1].y)

\* =========================================================================
\* The reply's required keys
\* =========================================================================
\* a reply that is valid JSON, an object, and lacks a key the schema requires
MissingRequired ==
    /\ reply.kind = "json" /\ reply.json # None
    /\ \/ RawData.mapName = None
       \/ RawData.detectedIcons = None
       \/ RawData.summary = None

\* C11: a reply that is valid JSON but omits any one of mapName,
\* detectedIcons or summary makes analyze reject, and no result whose mapName
\* or summary is absent is ever returned.
C11_MissingFieldRejects ==
    /\ (provider \in {"openai", "gemini"} /\ MissingRequired) => outcome = Rejected
    /\ (provider \in {"openai", "gemini"} /\ outcome.status = "resolved") =>
           Result.mapName # None /\ Result.summary # None

\* =========================================================================
\* The App's state machine
\* =========================================================================
\* C12: under every interleaving of file selections, FileReader completions,
\* crop confirmations, inference settlements and resets, at most one
\* inference call is outstanding at any time.
C12_SingleRequestInFlight == Len(calls) <= 1

\* the changes of AppState that claim C13 lists
ListedTransitions ==
    {<<"IDLE", "CROP">>, <<"CROP", "ANALYZING">>,
     <<"ANALYZING", "SUCCESS">>, <<"ANALYZING", "ERROR">>,
     <<"SUCCESS", "IDLE">>, <<"ERROR", "IDLE">>}

\* C13, for the analysis phase: ANALYZING is left only to SUCCESS or ERROR,
\* and SUCCESS and ERROR are entered only from ANALYZING, as in the listed
\* transitions.
C13_AnalysisTransitions ==
    [][(state' # state /\ (state = "ANALYZING" \/ state' \in {"SUCCESS", "ERROR"}))
          => <<state, state'>> \in ListedTransitions]_vars

\* C13 in full: every change of AppState is a listed transition.
C13_OnlyListedTransitions ==
    [][state' # state => <<state, state'>> \in ListedTransitions]_vars

\* what handleReset establishes, less the message
ResetState == state = "IDLE" /\ imageSrc = None /\ analysisData = None

\* C14: once handleReset has put the App in IDLE with imageSrc and
\* analysisData null, they stay so until the next file load completes: no
\* result of an earlier analysis appears afterwards.
C14_ResetStays ==
    [][ResetState => (ResetState' \/ Len(readers') < Len(readers))]_vars

\* C14 with the message: errorMsg too stays empty until the next load.
C14_ResetStaysWithMessage ==
    [][(ResetState /\ errorMsg = "") =>
          ((ResetState' /\ errorMsg' = "") \/ Len(readers') < Len(readers))]_vars

\* =========================================================================
\* The selector on its own: one mounted MinimapSelector, any pointer events
\* =========================================================================
\* pointer offsets left of, on and right of a 1000 x 1000 image, an image 16
\* and one 3 pixels wide, and an image that has no layout yet
SelEvents ==
    {[dx |-> x, dy |-> y, width |-> 1000, height |-> 1000] :
         x \in {-50, 0, 10, 30, 31, 1200}, y \in {-50, 0, 10, 30, 31, 1200}}
    \cup {[dx |-> 7, dy |-> 9, width |-> 16, height |-> 16],
          [dx |-> 1, dy |-> 2, width |-> 3, height |-> 3],
          [dx |-> 5, dy |-> 5, width |-> 0, height |-> 0]}

\* the App showing the selector for a loaded image, after the mount effect
InitSelector ==
    /\ apiKey = TRUE /\ manualBounds = None /\ reply = FailureReply("reject")
    /\ provider = "none" /\ outcome = Pending
    /\ state = "CROP"
    /\ imageSrc \in {Some(DataURL(f)) : f \in {g \in Files : startsWithImage(g.type)}}
    /\ analysisData = None /\ errorMsg = ""
    /\ readers = <<>> /\ calls = <<>> /\ settled = None
    /\ isDragging = FALSE /\ startPos = None /\ currentPos = None
    /\ selection = Some(defaultSelection)

NextSelector ==
    \/ \E e \in SelEvents : SelectorMouseDown(e)
    \/ \E e \in SelEvents : SelectorMouseMove(e)
    \/ SelectorMouseUp
    \/ ClickConfirm
    \/ ClickCancel

SpecSelector == InitSelector /\ [][NextSelector]_vars

\* the rectangles handed to onConfirm
Confirmed == {calls[i].bounds : i \in 1..Len(calls)}

\* C15: every rectangle passed to onConfirm has xmax - xmin >= 20 and
\* ymax - ymin >= 20, whatever sequence of mouse events came before.
C15_NoDegenerateRectangle ==
    \A b \in Confirmed : b.xmax - b.xmin >= 20 /\ b.ymax - b.ymin >= 20

\* a drag of 21 by 21 units, the smallest the selector keeps, was confirmed
C15_Witness ==
    \E b \in Confirmed : b.xmax - b.xmin = 21 /\ b.ymax - b.ymin = 21

RectInRange(b) ==
    /\ {b.xmin, b.ymin, b.xmax, b.ymax} \subseteq 0..1000
    /\ b.xmin <= b.xmax /\ b.ymin <= b.ymax

IsInteger(a) == a.d = 1

\* C20: every rectangle stored in selection, and so every rectangle passed to
\* onConfirm, has integer coordinates in 0..1000 with xmin <= xmax and
\* ymin <= ymax, for any pointer position inside or outside the image; the
\* positions of a drag that passes the size test are such integers.
C20_CoordinateRange ==
    /\ selection # None => RectInRange(selection[1])
    /\ \A b \in Confirmed : RectInRange(b)
    /\ (isDragging /\ startPos # None /\ currentPos # None
          /\ bigEnough(startPos[1], currentPos[1])) =>
          \A a \in {startPos[1].x, startPos[1].y, currentPos[1].x, currentPos[1].y} :
              IsInteger(a) /\ a.n \in 0..1000

\* a drag from left of and above the image to right of and below it was
\* confirmed as the whole image
C20_Witness == Rect(0, 0, 1000, 1000) \in Confirmed

\* =========================================================================
\* The bindings side by side: openaiService.ts, the Gemini binding with manual
\* bounds, and services/geminiService.ts, on the same replies
\* =========================================================================
CallGeminiService ==
    /\ provider = "none"
    /\ outcome' = analyzeValorantScreenshot(<<>>, reply)
    /\ provider' = "geminiService"
    /\ UNCHANGED <<apiKey, manualBounds, reply, appVars, settled, selectorVars>>

NextBindings == CallOpenAI \/ CallGemini \/ CallGeminiService

SpecBindings == InitNormalizer /\ [][NextBindings]_vars

\* C16: for every raw reply and every optional manual rectangle, what a
\* Gemini binding returns equals what analyzeWithOpenAI returns for the same
\* reply and rectangle (with an API key configured).
C16_ProviderEquivalence ==
    (provider \in {"gemini", "geminiService"} /\ apiKey) =>
        outcome = analyzeWithOpenAI(apiKey, reply, manualBounds)

\* the same for the Gemini binding that takes manual bounds, alone
C16_ManualBindingAgrees ==
    (provider = "gemini" /\ apiKey) =>
        outcome = analyzeWithOpenAI(apiKey, reply, manualBounds)

\* =========================================================================
\* Progress of the App
\* =========================================================================
\* every outstanding inference call is eventually answered
SpecAppFair ==
    SpecApp /\ WF_vars(\E i \in 1..MaxCalls, r \in AppReplies : callSettles(i, r))

\* the first half of C19: ANALYZING is followed by SUCCESS or ERROR
AnalysisEnds == (state = "ANALYZING") ~> (state \in {"SUCCESS", "ERROR"})

\* the screens of SUCCESS and ERROR that carry a button bound to handleReset
ResetControlRendered ==
    \/ state = "SUCCESS" /\ analysisData # None /\ imageSrc # None
    \/ state = "ERROR"

\* C19: whenever the App is in SUCCESS or ERROR, a rendered reset control
\* exists that returns it to IDLE, so that it never rests in a state from
\* which the user has no action.
C19_ResetControlExists ==
    state \in {"SUCCESS", "ERROR"} => ResetControlRendered

\* =========================================================================
\* Drags the selector rejects
\* =========================================================================
\* C21: a mouse-down clears the selection, so none exists during a drag; the
\* selection leaves null only at the end of a drag that exceeds 20 units in
\* both axes, and then it is that drag's rectangle, never an earlier or the
\* default one; onConfirm is invoked only with the selection then held.
C21_RejectedDragKeepsNull ==
    /\ [](isDragging => selection = None)
    /\ [][(selection = None /\ selection' # None) =>
             /\ isDragging /\ ~isDragging'
             /\ bigEnough(startPos[1], currentPos[1])
             /\ selection' = Some(newSelection(startPos[1], currentPos[1]))]_vars
    /\ [][(selection # None /\ selection' # selection) => selection' = None]_vars
    /\ [][Len(calls') > Len(calls) =>
             /\ selection # None
             /\ calls' = Append(calls, [base64Data |-> base64Data(imageSrc[1]),
                                        bounds |-> selection[1]])]_vars

\* the selector on screen after a drag of 20 units or less was released:
\* no selection, nothing confirmed
C21_Witness ==
    /\ Mounted(state, imageSrc)
    /\ ~isDragging /\ selection = None
    /\ calls = <<>>

\* =========================================================================
\* The result screen
\* =========================================================================
\* SUCCESS is entered by callSettles alone and left by every other step that
\* changes the App, so in SUCCESS settled names the call that produced
\* analysisData.
ResultOfCurrentImage ==
    /\ settled # None
    /\ imageSrc # None
    /\ settled[1].call.base64Data = base64Data(imageSrc[1])

\* C22: in every reachable state with state = SUCCESS, analysisData and
\* imageSrc are both non-null and analysisData is the result of the analysis
\* of the current imageSrc.
C22_ResultScreenRenderable ==
    state = "SUCCESS" => (analysisData # None /\ ResultOfCurrentImage)

\* C22 for results that are present: they belong to the image on screen.
C22_PresentResultIsCurrent ==
    (state = "SUCCESS" /\ analysisData # None) => ResultOfCurrentImage

\* =========================================================================
\* The clamp, over the three bindings that place detections
\* =========================================================================
CallGeminiLocated ==
    /\ provider = "none"
    /\ outcome' = analyzeValorantScreenshotLocated(reply)
    /\ provider' = "geminiLocated"
    /\ UNCHANGED <<apiKey, manualBounds, reply, appVars, settled, selectorVars>>

NextPlacement == CallOpenAI \/ CallGemini \/ CallGeminiLocated

SpecPlacement == InitNormalizer /\ [][NextPlacement]_vars

InUnitRange(a) == NumLe(Int2Num(0), a) /\ NumLe(a, Int2Num(100))

\* C23: for every resolved rectangle of positive width and height and every
\* detection that passes the inclusion test, the unclamped ratios
\* (cx - xmin) / width * 100 and (cy - ymin) / height * 100 lie in [0,100],
\* and the returned coordinates equal them: the clamp changes nothing.
C23_ClampRedundant ==
    (Succeeded /\ PositiveBox(ResolvedBox)) =>
        LET kept == KeptIndices(DetectedIcons, ResolvedBox)
        IN /\ Len(Players) = Len(kept)
           /\ \A j \in 1..Len(kept) :
                  LET icon == DetectedIcons[kept[j]]
                      rawX == Percent(Centre2X(icon), ResolvedBox.xmin,
                                      ResolvedBox.xmax - ResolvedBox.xmin)
                      rawY == Percent(Centre2Y(icon), ResolvedBox.ymin,
                                      ResolvedBox.ymax - ResolvedBox.ymin)
                  IN /\ InUnitRange(rawX) /\ InUnitRange(rawY)
                     /\ Players[j].x = rawX /\ Players[j].y = rawY

\* the binding without manual bounds returns a detection on the right and
\* top edges of the rectangle, at the two ends of the clamp's range
C23_Witness ==
    /\ provider = "geminiLocated" /\ Succeeded /\ PositiveBox(ResolvedBox)
    /\ \E k \in 1..Len(Players) :
          Players[k].x = Int2Num(100) /\ Players[k].y = Int2Num(0)

====
